---- MODULE Spec2Model ----
(***************************************************************************)
(* A model of inginious_fs_s3: the on-disk LRU cache S3CacheManager (with  *)
(* its CustomLRUCache, a cachetools.LRUCache subclass) and the S3FSProvider *)
(* operations that read, write, delete, move and copy through it.          *)
(*                                                                         *)
(* Strings are sequences of one-character strings, so that os.path.split,  *)
(* os.path.join, endswith and concatenation are computed, not assumed.     *)
(* A Python exception that leaves an operation is recorded by its class    *)
(* name in the field err; "ok" means the call returned normally.           *)
(***************************************************************************)
EXTENDS Integers, Sequences, FiniteSets, TLC

VARIABLES cache_data, lru_order, currsize, disk_files, disk_dirs,
          remote, now, last, local_path, deleting, walk

vars == <<cache_data, lru_order, currsize, disk_files, disk_dirs,
          remote, now, last, local_path, deleting, walk>>

----------------------------------------------------------------------------
(* Bounds of the model *)

\* max_size of the cache, in bytes
MaxSize == 2
\* the clock (datetime.now(), S3 last_modified) runs over 0..MaxTime
MaxTime == 1
\* the longest path, in characters, an ancestor walk is started on
MaxLen == 4
\* the steps of an ancestor walk that are counted
MaxSteps == 6

----------------------------------------------------------------------------
(* Strings and paths *)

SL == <<"/">>
EMPTY == <<>>
\* Python's None where a path is expected
None == <<"None">>
\* timestamp=None of get_fd
NoTimestamp == -1
\* a local variable that is not bound: no call is at that point
Unbound == <<"unbound">>

\* the keys of the model's universe
F_abc == <<"a", "/", "b", "/", "c">>
F_ae  == <<"a", "/", "e">>
F_fg  == <<"f", "/", "g">>
D_ab  == <<"a", "/", "b", "/">>
D_a   == <<"a", "/">>
\* the keys the cache is driven with directly: a file two directories deep, a
\* file of a sibling subtree, and the directory markers above the first
\* ("" is the marker copy_from stores for a provider whose prefix is "")
CacheFileKeys == {F_abc, F_fg}
CacheDirKeys  == {D_ab, D_a, EMPTY}
\* the paths given to the provider, whose prefix is "": two files under the
\* directory a/, one of them in its subdirectory a/b/
FileKeys == {F_abc, F_ae}
DirKeys  == {D_a}

\* the byte strings written by the clients
B_x  == <<"x">>
B_yy == <<"y", "y">>
B_zzz == <<"z", "z", "z">>
Contents == {B_x, B_yy, B_zzz}
\* the byte strings written through the provider
Bodies == {B_x, B_yy}

EmptyFn == [k \in {} |-> <<>>]

\* cache_path, the directory given to S3CacheManager
cache_path == <<"k">>

endswith_slash(p) == Len(p) > 0 /\ p[Len(p)] = "/"

\* path[:-1] when path.endswith("/")
strip_slash(p) == IF endswith_slash(p) THEN SubSeq(p, 1, Len(p) - 1) ELSE p

RECURSIVE rstrip_slashes(_)
rstrip_slashes(p) ==
    IF endswith_slash(p) THEN rstrip_slashes(SubSeq(p, 1, Len(p) - 1)) ELSE p

\* p.rfind("/") + 1
rfind_slash1(p) ==
    LET idx == {i \in 1..Len(p) : p[i] = "/"}
    IN  IF idx = {} THEN 0 ELSE CHOOSE i \in idx : \A j \in idx : j <= i

\* os.path.split(p)[0] (posixpath)
split_head(p) ==
    LET i == rfind_slash1(p)
        head == SubSeq(p, 1, i)
    IN  IF head # EMPTY /\ (\E j \in 1..Len(head) : head[j] # "/")
        THEN rstrip_slashes(head)
        ELSE head

\* os.path.split(p)[1]
split_tail(p) == SubSeq(p, rfind_slash1(p) + 1, Len(p))

\* os.path.join(a, b) (posixpath)
path_join(a, b) ==
    IF Len(b) > 0 /\ b[1] = "/" THEN b
    ELSE IF a = EMPTY \/ endswith_slash(a) THEN a \o b
    ELSE a \o SL \o b

\* str.startswith
startswith(p, pre) == Len(pre) <= Len(p) /\ SubSeq(p, 1, Len(pre)) = pre

\* the directories os.makedirs(d, exist_ok=True) leaves existing: d and its parents
RECURSIVE makedirs(_)
makedirs(d) ==
    IF d = EMPTY \/ d = SL THEN {} ELSE {d} \cup makedirs(split_head(d))

\* os.listdir(d): the names of the files and directories directly in d
listdir(files, dirs, d) ==
    {split_tail(f) : f \in {g \in DOMAIN files : split_head(g) = d}}
        \cup {split_tail(e) : e \in {g \in dirs : split_head(g) = d /\ g # d}}

----------------------------------------------------------------------------
(* The cache as a value: c.data is Cache.__data (key -> <<timestamp,        *)
(* disk_path, weight>>), c.order is LRUCache.__order (least recent first),  *)
(* c.currsize is Cache.__currsize, c.files and c.dirs are the disk under    *)
(* cache_path, c.err the exception raised so far ("ok" if none), c.val the  *)
(* value returned, c.victims the keys popitem has taken during the call.    *)
(* An operator whose name ends in a digit is the rest of the function of    *)
(* that name, from the statement its comment names.                         *)

Ok(c) == c.err = "ok"

Raise(c, e) == [c EXCEPT !.err = e]

Return(c, v) == [c EXCEPT !.val = v]

\* LRUCache.__update: move_to_end, or append
lru_update(order, key) == SelectSeq(order, LAMBDA k : k # key) \o <<key>>

\* one round of the "also up parent folders" loop, cur_path being the new one
up_parent(data, order, cur_path) ==
    IF (cur_path \o SL) \in DOMAIN data THEN lru_update(order, cur_path \o SL) ELSE order

\* the "also up parent folders" loop of __getitem__ and __setitem__
RECURSIVE up_parents(_, _, _)
up_parents(data, order, cur_path) ==
    IF cur_path = EMPTY THEN order
    ELSE up_parents(data, up_parent(data, order, split_head(cur_path)),
                    split_head(cur_path))

\* CustomLRUCache.__getitem__
getitem(c, path) ==
    IF path \notin DOMAIN c.data THEN Raise(c, "KeyError")
    ELSE [c EXCEPT !.val = c.data[path],
                   !.order = up_parents(c.data, lru_update(c.order, path),
                                        strip_slash(path))]

\* os.unlink(disk_path)
unlink(c, disk_path) ==
    IF disk_path \in DOMAIN c.files
    THEN [c EXCEPT !.files = [f \in DOMAIN c.files \ {disk_path} |-> c.files[f]]]
    ELSE IF strip_slash(disk_path) \in c.dirs THEN Raise(c, "IsADirectoryError")
    ELSE Raise(c, "FileNotFoundError")

\* LRUCache.__delitem__ -> Cache.__delitem__ (the "call super" of __delitem__)
super_delitem(c, key) ==
    IF ~Ok(c) THEN c
    ELSE IF key \notin DOMAIN c.data THEN Raise(c, "KeyError")
    ELSE [c EXCEPT !.data = [k \in DOMAIN c.data \ {key} |-> c.data[k]],
                   !.currsize = c.currsize - c.data[key][3],
                   !.order = SelectSeq(c.order, LAMBDA k : k # key)]

\* __delitem__: "if it's a file, or an empty dir: os.unlink(disk_path)"
delitem_unlink(c, path) ==
    IF ~Ok(c) THEN c
    ELSE IF ~endswith_slash(path) THEN unlink(c, c.val[2])
    ELSE IF strip_slash(c.val[2]) \notin c.dirs THEN Raise(c, "FileNotFoundError")
    ELSE IF listdir(c.files, c.dirs, strip_slash(c.val[2])) = {} THEN unlink(c, c.val[2])
    ELSE c

\* CustomLRUCache.__delitem__; delitem2 is "also pop parent folders"
RECURSIVE delitem(_, _)
RECURSIVE delitem2(_, _)
delitem(c, path) ==
    super_delitem(delitem2(delitem_unlink(getitem(c, path), path),
                           split_head(strip_slash(path))),
                  strip_slash(path))

delitem2(c, sub) ==
    IF Ok(c) /\ sub # EMPTY /\ (sub \o SL) \in DOMAIN c.data
    THEN delitem(c, sub \o SL) ELSE c

\* pop(key) of popitem: value = self[key]; del self[key]
pop(c, key) == IF ~Ok(c) THEN c ELSE delitem(c, key)

\* LRUCache.popitem: the least recently used key is the victim
popitem(c) ==
    IF c.order = <<>> THEN Raise(c, "KeyError")
    ELSE pop(getitem([c EXCEPT !.victims = c.victims \cup {Head(c.order)}],
                     Head(c.order)),
             Head(c.order))

\* the eviction loop, were it to compare the current size alone to maxsize
RECURSIVE evict_without_size(_, _)
evict_without_size(c, size) ==
    IF Ok(c) /\ c.currsize > MaxSize THEN evict_without_size(popitem(c), size) ELSE c

\* the eviction loop of Cache.__setitem__
RECURSIVE evict(_, _)
evict(c, size) ==
    IF Ok(c) /\ c.currsize + size > MaxSize THEN evict(popitem(c), size) ELSE c

\* self.__data[key] = value
with_item(data, key, value) ==
    [k \in DOMAIN data \cup {key} |-> IF k = key THEN value ELSE data[k]]

\* Cache.__setitem__ from "if key in self.__data: diffsize = ...", then
\* LRUCache.__update(key) and the parents loop of CustomLRUCache.__setitem__
setitem2(c, path, value) ==
    IF ~Ok(c) THEN c
    ELSE [c EXCEPT !.data = with_item(c.data, path, value),
                   !.currsize = c.currsize + (IF path \in DOMAIN c.data
                                              THEN value[3] - c.data[path][3]
                                              ELSE value[3]),
                   !.order = up_parents(with_item(c.data, path, value),
                                        lru_update(c.order, path), strip_slash(path))]

\* CustomLRUCache.__setitem__ -> LRUCache.__setitem__ -> Cache.__setitem__
setitem(c, path, value) ==
    IF ~Ok(c) THEN c
    ELSE IF value[3] > MaxSize THEN Raise(c, "ValueError")
    ELSE setitem2(IF path \notin DOMAIN c.data \/ c.data[path][3] < value[3]
                  THEN evict(c, value[3]) ELSE c,
                  path, value)

----------------------------------------------------------------------------
(* S3CacheManager *)

\* get: "if entry[0] >= cur_timestamp: return entry[1]", else None
cache_get2(c, cur_timestamp) ==
    IF ~Ok(c) THEN c
    ELSE IF c.val[1] >= cur_timestamp THEN Return(c, c.val[2])
    ELSE Return(c, None)

\* S3CacheManager.get: c.val is the disk path, or None
cache_get(c, path, cur_timestamp) ==
    IF ~Ok(c) THEN c
    ELSE IF path \in DOMAIN c.data THEN cache_get2(getitem(c, path), cur_timestamp)
    ELSE Return(c, None)

\* os.makedirs(os.path.split(disk_path)[0], exist_ok=True)
make_parent(c, disk_path) ==
    [c EXCEPT !.dirs = c.dirs \cup makedirs(split_head(disk_path))]

\* open(disk_path, 'wb').write(content)
write_file(c, disk_path, content) ==
    [c EXCEPT !.files = [f \in DOMAIN c.files \cup {disk_path} |->
                            IF f = disk_path THEN content ELSE c.files[f]]]

\* S3CacheManager.put_file
put_file(c, path, cur_timestamp, content) ==
    IF ~Ok(c) THEN c
    ELSE setitem(write_file(make_parent(c, path_join(cache_path, path)),
                            path_join(cache_path, path), content),
                 path, <<cur_timestamp, path_join(cache_path, path), Len(content)>>)

\* S3CacheManager.put_folder
put_folder(c, path, cur_timestamp) ==
    IF ~Ok(c) THEN c
    ELSE setitem(make_parent(c, path_join(cache_path, path)),
                 path, <<cur_timestamp, path_join(cache_path, path), 0>>)

\* S3CacheManager.invalidate
RECURSIVE invalidate(_, _)
invalidate(c, path) ==
    IF ~Ok(c) THEN c
    ELSE IF path \in DOMAIN c.data THEN delitem(c, path)
    ELSE IF split_head(strip_slash(path)) # EMPTY
    THEN invalidate(c, split_head(strip_slash(path)) \o SL)
    ELSE c

----------------------------------------------------------------------------
(* The bucket: s.remote is key -> <<last_modified, body>>. s.fetches counts *)
(* the remote get calls and s.lists the remote list calls of an operation.  *)
(* A remote call fails (ClientError) only for a key that is not there.      *)

\* the byte order S3 lists keys in
char_rank(ch) ==
    CASE ch = "/" -> 0 [] ch = "a" -> 1 [] ch = "b" -> 2 [] ch = "c" -> 3
      [] ch = "e" -> 4 [] ch = "f" -> 5 [] ch = "g" -> 6 [] OTHER -> 7

RECURSIVE key_less(_, _)
key_less(p, q) ==
    IF q = EMPTY THEN FALSE
    ELSE IF p = EMPTY THEN TRUE
    ELSE IF p[1] # q[1] THEN char_rank(p[1]) < char_rank(q[1])
    ELSE key_less(Tail(p), Tail(q))

least_key(S) == CHOOSE k \in S : \A o \in S \ {k} : key_less(k, o)

RECURSIVE sorted_keys(_)
sorted_keys(S) ==
    IF S = {} THEN <<>> ELSE <<least_key(S)>> \o sorted_keys(S \ {least_key(S)})

\* bucket.objects.filter(Prefix=prefix, Marker=prefix): the keys under prefix,
\* after prefix itself, in key order
objects_filter(s, prefix) ==
    sorted_keys({k \in DOMAIN s.remote : startswith(k, prefix) /\ key_less(prefix, k)})

\* os.path.relpath(path, base), for a key under base
relpath(path, base) == rstrip_slashes(SubSeq(path, Len(base) + 1, Len(path)))

\* S3FSProvider._compute_relpath
compute_relpath(path, base) ==
    IF endswith_slash(path) /\ ~endswith_slash(relpath(path, base))
           /\ relpath(path, base) # EMPTY
    THEN relpath(path, base) \o SL ELSE relpath(path, base)

\* S3FSProvider.__init__: the prefix ends with "/", and "/" alone is ""
init_prefix(prefix) ==
    IF endswith_slash(prefix)
    THEN (IF prefix = SL THEN EMPTY ELSE prefix)
    ELSE prefix \o SL

\* bucket.put_object / upload_fileobj of one key
remote_put(s, key, body) ==
    [s EXCEPT !.remote = with_item(s.remote, key, <<now, body>>)]

\* bucket.Object(key).delete()
remote_delete(s, key) ==
    IF ~Ok(s) THEN s
    ELSE [s EXCEPT !.remote = [k \in DOMAIN s.remote \ {key} |-> s.remote[k]]]

\* parts of _put_file: the keys of the directories above fullpath, deepest
\* first, as the second loop takes them
RECURSIVE folder_keys(_)
folder_keys(fullpath) ==
    IF rfind_slash1(fullpath) = 0 THEN <<>>
    ELSE <<SubSeq(fullpath, 1, rfind_slash1(fullpath))>>
             \o folder_keys(SubSeq(fullpath, 1, rfind_slash1(fullpath) - 1))

\* the "update folders timestamps" loop of _put_file
RECURSIVE put_objects(_, _)
put_objects(s, keys) ==
    IF keys = <<>> THEN s ELSE put_objects(remote_put(s, Head(keys), EMPTY), Tail(keys))

\* S3FSProvider._put_file
provider_put_file(s, fullpath, content) ==
    put_objects(remote_put(s, fullpath, content), folder_keys(fullpath))

\* S3FSProvider.put
put(s, prefix, filepath, content) ==
    IF ~Ok(s) THEN s
    ELSE IF endswith_slash(prefix \o filepath) THEN Raise(s, "NotFoundException")
    ELSE Return(provider_put_file(s, prefix \o filepath, content), None)

\* open(local_path, 'rb').read()
open_read(s) ==
    IF ~Ok(s) THEN s
    ELSE IF s.val = None THEN Raise(s, "TypeError")
    ELSE IF s.val \notin DOMAIN s.files THEN Raise(s, "FileNotFoundError")
    ELSE Return(s, s.files[s.val])

\* obj.get()["Body"]: one remote get
fetched(s) == [s EXCEPT !.fetches = s.fetches + 1]

\* get_fd from "if local_path is None"
get_fd2(s, fullpath, needed_time) ==
    IF ~Ok(s) THEN s
    ELSE IF s.val # None THEN open_read(s)
    ELSE IF fullpath \notin DOMAIN s.remote THEN Raise(fetched(s), "NotFoundException")
    ELSE open_read(cache_get(put_file(fetched(s), fullpath, s.remote[fullpath][1],
                                      s.remote[fullpath][2]),
                             fullpath, needed_time))

\* S3FSProvider.get_fd, and the read() of S3FSProvider.get
get_fd(s, prefix, filepath, timestamp) ==
    IF ~Ok(s) THEN s
    ELSE IF endswith_slash(prefix \o filepath) THEN Raise(s, "NotFoundException")
    ELSE IF timestamp # NoTimestamp
    THEN get_fd2(cache_get(s, prefix \o filepath, timestamp), prefix \o filepath, timestamp)
    ELSE IF (prefix \o filepath) \notin DOMAIN s.remote THEN Raise(s, "NotFoundException")
    ELSE get_fd2(cache_get(s, prefix \o filepath, s.remote[prefix \o filepath][1]),
                 prefix \o filepath, s.remote[prefix \o filepath][1])

\* [self._compute_relpath(f.key, prefix) for f in objects]
relpaths(keys, base) == [i \in 1..Len(keys) |-> compute_relpath(keys[i], base)]

\* one remote list call
listed(s) == [s EXCEPT !.lists = s.lists + 1]

\* S3FSProvider.list(folders, files, recursive=True) of the provider scoped to prefix
list(s, prefix, folders, files) ==
    SelectSeq(relpaths(objects_filter(s, prefix), prefix),
              LAMBDA f : (endswith_slash(f) /\ folders) \/ (~endswith_slash(f) /\ files))

\* S3FSProvider.delete; delete_each is its "for f in list: subfolder.delete(f)"
RECURSIVE delete(_, _, _)
RECURSIVE delete_each(_, _, _)
delete(s, prefix, filepath) ==
    IF ~Ok(s) THEN s
    ELSE remote_delete(
             invalidate(IF endswith_slash(prefix \o filepath)
                        THEN delete_each(listed(s), init_prefix(prefix \o filepath),
                                         list(s, init_prefix(prefix \o filepath), FALSE, TRUE))
                        ELSE s,
                        prefix \o filepath),
             prefix \o filepath)

delete_each(s, prefix, files) ==
    IF files = <<>> \/ ~Ok(s) THEN s
    ELSE delete_each(delete(s, prefix, Head(files)), prefix, Tail(files))

\* move: "dest_folder.put(f, src_folder.get(f))" and "self.put(dest, self.get(src))"
put_got(s, prefix, filepath) ==
    IF ~Ok(s) THEN s ELSE put(s, prefix, filepath, s.val)

\* the "for f in files" loop of move
RECURSIVE move_each(_, _, _, _)
move_each(s, src_prefix, dest_prefix, files) ==
    IF files = <<>> \/ ~Ok(s) THEN s
    ELSE move_each(IF endswith_slash(Head(files)) THEN s
                   ELSE put_got(get_fd(s, src_prefix, Head(files), NoTimestamp),
                                dest_prefix, Head(files)),
                   src_prefix, dest_prefix, Tail(files))

\* S3FSProvider.move
move(s, prefix, src, dest) ==
    IF endswith_slash(prefix \o src) \/ prefix \o src = EMPTY
    THEN delete(move_each(listed(s), init_prefix(prefix \o src), init_prefix(prefix \o dest),
                          list(s, init_prefix(prefix \o src), TRUE, TRUE)),
                init_prefix(prefix \o src), EMPTY)
    ELSE delete(put_got(get_fd(s, prefix, src, NoTimestamp), prefix, dest), prefix, src)

\* the "while f != ''" loop of copy_from: the directories above f, "" included
RECURSIVE folders_above(_)
folders_above(f) ==
    IF f = EMPTY THEN {} ELSE {split_head(f)} \cup folders_above(split_head(f))

\* copy_from: "open(dest_file_path, 'wb').write(...)"; the files written under
\* dest_disk are collected in dest
copied(s, dest, f) ==
    IF ~Ok(s) THEN s ELSE Return(s, with_item(dest, f, s.val))

\* the "for f, tmsp in objects" loop of copy_from
RECURSIVE copy_each(_, _, _, _)
copy_each(s, prefix, src, objects) ==
    IF ~Ok(s) \/ objects = <<>> THEN s
    ELSE copy_each(copied(get_fd(s, prefix, src \o Head(objects)[1], Head(objects)[2]),
                          s.val, Head(objects)[1]),
                   prefix, src, Tail(objects))

\* the "update folders in cache" loop of copy_from, in the order folders
RECURSIVE put_folders(_, _, _, _)
put_folders(s, fullpath, folders, start_timestamp) ==
    IF folders = <<>> \/ ~Ok(s) THEN s
    ELSE put_folders(put_folder(s, fullpath \o (IF Head(folders) # EMPTY
                                                THEN Head(folders) \o SL ELSE EMPTY),
                                start_timestamp),
                     fullpath, Tail(folders), start_timestamp)

\* S3FSProvider._recursive_overwrite(folder, dest_disk): every file on the
\* disk under folder, by its path relative to folder
recursive_overwrite(s, folder) ==
    [r \in {SubSeq(f, Len(folder) + 1, Len(f)) :
                f \in {g \in DOMAIN s.files : startswith(g, folder)}} |->
        s.files[folder \o r]]

\* objects of copy_from: the files listed under fullpath, with their last_modified
copy_objects(s, fullpath) ==
    [i \in 1..Len(list(s, fullpath, FALSE, TRUE)) |->
        <<list(s, fullpath, FALSE, TRUE)[i],
          s.remote[fullpath \o list(s, fullpath, FALSE, TRUE)[i]][1]>>]

\* the set all_folders of copy_from
all_folders(objects) ==
    {EMPTY} \cup UNION {folders_above(objects[i][1]) : i \in 1..Len(objects)}

\* the orders a Python set may be iterated in
Orders(S) ==
    {o \in [1..Cardinality(S) -> S] : \A i, j \in 1..Cardinality(S) : o[i] = o[j] => i = j}

\* copy_from: the single file written at dest_disk
copied_file(s) == IF ~Ok(s) THEN s ELSE Return(s, with_item(EmptyFn, EMPTY, s.val))

\* copy_from from "if folder is not None"
copy_from2(s, prefix, src, folders, start_timestamp) ==
    IF s.val # None THEN Return(s, recursive_overwrite(s, s.val))
    ELSE put_folders(copy_each(Return(listed(s), EmptyFn), prefix, src,
                               copy_objects(s, prefix \o src)),
                     prefix \o src, folders, start_timestamp)

\* S3FSProvider.copy_from; folders is the order all_folders is iterated in
copy_from(s, prefix, src, folders) ==
    IF prefix \o src # EMPTY /\ ~endswith_slash(prefix \o src)
    THEN copied_file(get_fd(s, prefix, src, NoTimestamp))
    ELSE copy_from2(cache_get(s, prefix \o src, now), prefix, src, folders, now)

----------------------------------------------------------------------------
(* The state of the program as a cache value, and back *)

TheCache ==
    [data |-> cache_data, order |-> lru_order, currsize |-> currsize,
     files |-> disk_files, dirs |-> disk_dirs, remote |-> remote,
     fetches |-> 0, lists |-> 0, victims |-> {}, err |-> "ok", val |-> None]

\* no ancestor walk is under way
NoWalk == [fn |-> "none", path |-> EMPTY, cur_path |-> EMPTY, steps |-> 0,
           returned |-> TRUE]

\* S3CacheManager.__init__: an empty cache over a wiped, re-created cache_path;
\* the bucket starts empty
Constructed ==
    /\ cache_data = EmptyFn
    /\ lru_order = <<>>
    /\ currsize = 0
    /\ disk_files = EmptyFn
    /\ disk_dirs = {cache_path}
    /\ remote = EmptyFn
    /\ now = 0
    /\ last = [op |-> "init", path |-> EMPTY, ts |-> NoTimestamp, content |-> EMPTY,
               err |-> "ok", ret |-> None, fetches |-> 0, lists |-> 0,
               victims |-> {}]

\* no call is under way
Init ==
    /\ Constructed
    /\ local_path = Unbound
    /\ deleting = Unbound
    /\ walk = NoWalk

\* the state a call leaves, and in last what its caller saw: the arguments,
\* the exception that left it ("ok" if none), the value returned, the remote
\* get and list calls made, and the keys taken for eviction
Leave(name, path, ts, content, s) ==
    /\ cache_data' = s.data
    /\ lru_order' = s.order
    /\ currsize' = s.currsize
    /\ disk_files' = s.files
    /\ disk_dirs' = s.dirs
    /\ remote' = s.remote
    /\ now' = now
    /\ last' = [op |-> name, path |-> path, ts |-> ts, content |-> content,
                err |-> s.err, ret |-> IF s.err = "ok" THEN s.val ELSE None,
                fetches |-> s.fetches, lists |-> s.lists, victims |-> s.victims]

\* a call made from beginning to end, no other call being under way
Done(name, path, ts, content, s) ==
    /\ Leave(name, path, ts, content, s)
    /\ UNCHANGED <<local_path, deleting, walk>>

----------------------------------------------------------------------------
(* The cache driven directly, as its four operations. The entries are      *)
(* stamped with the clock, which stands still here; lookups ask for any    *)
(* freshness.                                                              *)

CacheGet ==
    \E path \in CacheFileKeys \cup CacheDirKeys, ts \in 0..MaxTime :
        Done("cache_get", path, ts, EMPTY, cache_get(TheCache, path, ts))

CachePutFile ==
    \E path \in CacheFileKeys, content \in Contents :
        Done("put_file", path, now, content,
             Return(put_file(TheCache, path, now, content), None))

CachePutFolder ==
    \E path \in CacheDirKeys :
        Done("put_folder", path, now, EMPTY,
             Return(put_folder(TheCache, path, now), None))

CacheInvalidate ==
    \E path \in CacheFileKeys \cup CacheDirKeys :
        Done("invalidate", path, NoTimestamp, EMPTY,
             Return(invalidate(TheCache, path), None))

CacheNext == CacheGet \/ CachePutFile \/ CachePutFolder \/ CacheInvalidate

CacheSpec == Init /\ [][CacheNext]_vars

----------------------------------------------------------------------------
(* The provider, whose prefix is "", driven by its public operations *)

prefix == init_prefix(SL)

Read ==
    \E path \in FileKeys, ts \in {NoTimestamp} \cup 0..MaxTime :
        Done("get", path, ts, EMPTY, get_fd(TheCache, prefix, path, ts))

Write ==
    \E path \in FileKeys, content \in Bodies :
        Done("put", path, NoTimestamp, content, put(TheCache, prefix, path, content))

Delete ==
    \E path \in FileKeys \cup DirKeys :
        Done("delete", path, NoTimestamp, EMPTY,
             Return(delete(TheCache, prefix, path), None))

Move ==
    \E src \in FileKeys : \E dest \in FileKeys \ {src} :
        Done("move", src, NoTimestamp, dest,
             Return(move(TheCache, prefix, src, dest), None))

CopyFrom ==
    \E src \in DirKeys :
        \E folders \in Orders(all_folders(copy_objects(TheCache, prefix \o src))) :
            Done("copy_from", src, NoTimestamp, EMPTY,
                 copy_from(TheCache, prefix, src, folders))

\* time passes between two operations
Tick ==
    /\ now < MaxTime
    /\ now' = now + 1
    /\ UNCHANGED <<cache_data, lru_order, currsize, disk_files, disk_dirs, remote, last,
                   local_path, deleting, walk>>

Next == Read \/ Write \/ Delete \/ Move \/ CopyFrom \/ Tick

Spec == Init /\ [][Next]_vars

----------------------------------------------------------------------------
(* Two or more calls on the shared cache at a time. Nothing in the code     *)
(* holds a lock, so another thread may run between any two statements: the  *)
(* reader's get_fd is taken in two steps (the lookup of l.207, the open of  *)
(* l.214) and __delitem__ in two (l.49-52 up to os.unlink, l.54-62 from     *)
(* "also pop parent folders"). local_path is the reader's variable of that  *)
(* name, deleting the path of the __delitem__ under way.                    *)

\* get_fd l.207: local_path = self._cache.get(fullpath, needed_time); a read
\* that misses goes on to the download, which is RaceStore
RaceLookup ==
    /\ local_path = Unbound
    /\ \E path \in CacheFileKeys, ts \in 0..MaxTime :
           /\ Leave("lookup", path, ts, EMPTY, cache_get(TheCache, path, ts))
           /\ local_path' = IF cache_get(TheCache, path, ts).val = None
                            THEN Unbound ELSE cache_get(TheCache, path, ts).val
    /\ UNCHANGED <<deleting, walk>>

\* get_fd l.214: return open(local_path, 'rb')
RaceOpen ==
    /\ local_path # Unbound
    /\ Leave("open", local_path, NoTimestamp, EMPTY,
             open_read(Return(TheCache, local_path)))
    /\ local_path' = Unbound
    /\ UNCHANGED <<deleting, walk>>

\* put_file by any thread (the download of a read that missed), which evicts
\* as needed
RaceStore ==
    \E path \in CacheFileKeys, content \in Bodies :
        Done("put_file", path, now, content,
             Return(put_file(TheCache, path, now, content), None))

\* invalidate(path) of a cached path, up to the os.unlink of __delitem__
RaceUnlink ==
    /\ deleting = Unbound
    /\ \E path \in CacheFileKeys \cap DOMAIN cache_data :
           /\ Leave("unlink", path, NoTimestamp, EMPTY,
                    Return(delitem_unlink(getitem(TheCache, path), path), None))
           /\ deleting' = IF Ok(delitem_unlink(getitem(TheCache, path), path))
                          THEN path ELSE Unbound
    /\ UNCHANGED <<local_path, walk>>

\* the rest of that __delitem__: the parent's marker, then super().__delitem__
RaceDelitem ==
    /\ deleting # Unbound
    /\ Leave("delitem", deleting, NoTimestamp, EMPTY,
             Return(super_delitem(delitem2(TheCache, split_head(strip_slash(deleting))),
                                  strip_slash(deleting)),
                    None))
    /\ deleting' = Unbound
    /\ UNCHANGED <<local_path, walk>>

RaceNext == RaceLookup \/ RaceOpen \/ RaceStore \/ RaceUnlink \/ RaceDelitem

RaceSpec == Init /\ [][RaceNext]_vars

----------------------------------------------------------------------------
(* The ancestor walks, one round at a time: the "also up parent folders"    *)
(* loop of __getitem__ and __setitem__, and the recursion of invalidate on  *)
(* a path that has no entry. walk.path is the path the call was given,      *)
(* walk.cur_path the loop's variable (for invalidate, the argument of the   *)
(* current call), walk.steps the rounds made, walk.returned whether the     *)
(* walk has stopped.                                                        *)

\* the paths walked: one or more names separated by single "/", with or
\* without a leading "/" (a prefix configured as "/x") and a trailing "/"
WalkPaths ==
    {p \in UNION {[1..n -> {"a", "/"}] : n \in 1..MaxLen} :
        \A i \in 1..(Len(p) - 1) : ~(p[i] = "/" /\ p[i + 1] = "/")}

\* the walk of a call on any of these paths is about to start, on a new cache
WalkInit ==
    /\ Constructed
    /\ local_path = Unbound
    /\ deleting = Unbound
    /\ \E fn \in {"getitem", "invalidate"}, path \in WalkPaths :
           walk = [fn |-> fn, path |-> path,
                   cur_path |-> IF fn = "getitem" THEN strip_slash(path) ELSE path,
                   steps |-> 0, returned |-> FALSE]

\* __getitem__ / __setitem__: the test of "while cur_path != ''" and one round
GetitemStep ==
    /\ walk.fn = "getitem" /\ ~walk.returned /\ walk.steps < MaxSteps
    /\ IF walk.cur_path = EMPTY
       THEN /\ walk' = [walk EXCEPT !.returned = TRUE]
            /\ UNCHANGED lru_order
       ELSE /\ walk' = [walk EXCEPT !.cur_path = split_head(walk.cur_path),
                                    !.steps = walk.steps + 1]
            /\ lru_order' = up_parent(cache_data, lru_order, split_head(walk.cur_path))
    /\ UNCHANGED <<cache_data, currsize, disk_files, disk_dirs, remote, now, last,
                   local_path, deleting>>

\* invalidate(cur_path) of a path without an entry: it returns, or calls
\* invalidate(sub + "/")
InvalidateStep ==
    /\ walk.fn = "invalidate" /\ ~walk.returned /\ walk.steps < MaxSteps
    /\ walk.cur_path \notin DOMAIN cache_data
    /\ walk' = IF split_head(strip_slash(walk.cur_path)) # EMPTY
               THEN [walk EXCEPT !.cur_path = split_head(strip_slash(walk.cur_path)) \o SL,
                                 !.steps = walk.steps + 1]
               ELSE [walk EXCEPT !.returned = TRUE]
    /\ UNCHANGED <<cache_data, lru_order, currsize, disk_files, disk_dirs, remote, now,
                   last, local_path, deleting>>

WalkNext == GetitemStep \/ InvalidateStep

WalkSpec == WalkInit /\ [][WalkNext]_vars

----------------------------------------------------------------------------
(* Properties *)

\* the step just taken is a call of the operation op (time stood still)
Called(op) == last'.op = op /\ now' = now

\* the position of key in the recency order (0 if absent); larger is more recent
Pos(order, key) ==
    IF \E i \in 1..Len(order) : order[i] = key
    THEN CHOOSE i \in 1..Len(order) : order[i] = key ELSE 0

\* the keys of the directory markers above path, the scope root's ("") included
AncestorMarkers(path) ==
    IF path = EMPTY THEN {}
    ELSE {IF d = EMPTY THEN EMPTY ELSE d \o SL : d \in folders_above(strip_slash(path))}

\* the marker above path that is in the cache and nearest to it
NearestMarker(data, path) ==
    LET present == AncestorMarkers(path) \cap DOMAIN data
    IN  IF present = {} THEN None
        ELSE CHOOSE m \in present : \A o \in present : Len(o) <= Len(m)

\* the total weight of the file entries of the cache
RECURSIVE WeightOf(_, _)
WeightOf(data, keys) ==
    IF keys = {} THEN 0
    ELSE LET k == CHOOSE x \in keys : TRUE
         IN  data[k][3] + WeightOf(data, keys \ {k})

FileWeight == WeightOf(cache_data, {k \in DOMAIN cache_data : ~endswith_slash(k) /\ k # EMPTY})

\* C2 (cascade invalidation): invalidate(a/b/c) with the entries a/b/c, a/b/ and
\* a/ in the cache completes with all three removed, the file deleted from the
\* disk, and a directory gone from the disk only if it is empty.
C2_CascadeInvalidation ==
    [][(Called("invalidate") /\ last'.path = F_abc
            /\ {F_abc, D_ab, D_a} \subseteq DOMAIN cache_data)
        => /\ last'.err = "ok"
           /\ {F_abc, D_ab, D_a} \cap DOMAIN cache_data' = {}
           /\ path_join(cache_path, F_abc) \notin DOMAIN disk_files'
           /\ \A d \in disk_dirs \ disk_dirs' :
                  listdir(disk_files', disk_dirs', d) = {}]_vars

\* C3 (orphan invalidation): invalidate(path) of a path without an entry of its
\* own removes the nearest directory marker above it that is in the cache (the
\* scope root's included); it is never a no-op while such a marker is present.
C3_OrphanInvalidation ==
    [][(Called("invalidate") /\ last'.path \notin DOMAIN cache_data
            /\ NearestMarker(cache_data, last'.path) # None)
        => NearestMarker(cache_data, last'.path) \notin DOMAIN cache_data']_vars

\* C4 (capacity bound): after every put_file, put_folder, get or invalidate, the
\* file entries of the cache weigh at most max_size in total, and a directory
\* marker weighs nothing.
C4_CapacityBound ==
    /\ FileWeight <= MaxSize
    /\ \A k \in DOMAIN cache_data :
           (endswith_slash(k) \/ k = EMPTY) => cache_data[k][3] = 0

\* C4's case: the cache is full after an insertion that had to evict the file
\* of the other subtree (its directory is on the disk, its entry and file gone)
C4_Witness ==
    /\ last.op = "put_file" /\ last.err = "ok" /\ last.path = F_abc
    /\ FileWeight = MaxSize
    /\ D_a \in DOMAIN cache_data
    /\ <<"k", "/", "f">> \in disk_dirs
    /\ F_fg \notin DOMAIN cache_data
    /\ path_join(cache_path, F_fg) \notin DOMAIN disk_files

\* C5 (touch propagation): after a lookup that finds path, and after an
\* insertion of path, every directory marker above path that is in the cache
\* is at least as recent as path in the recency order (so that eviction, which
\* takes the least recent entry, reaches the entries of an untouched sibling
\* subtree before these markers).
C5_TouchPropagation ==
    [][((Called("cache_get") /\ last'.path \in DOMAIN cache_data)
            \/ ((Called("put_file") \/ Called("put_folder")) /\ last'.err = "ok"))
        => \A m \in AncestorMarkers(last'.path) \cap DOMAIN cache_data' :
               Pos(lru_order', m) > Pos(lru_order', last'.path)]_vars

\* the same for the markers whose key is not "": these the walk reaches
TouchPropagationBelowRoot ==
    [][((Called("cache_get") /\ last'.path \in DOMAIN cache_data)
            \/ ((Called("put_file") \/ Called("put_folder")) /\ last'.err = "ok"))
        => \A m \in (AncestorMarkers(last'.path) \ {EMPTY}) \cap DOMAIN cache_data' :
               Pos(lru_order', m) > Pos(lru_order', last'.path)]_vars

\* the freshness a read of key asks of the cache: timestamp, or else the
\* remote object's last_modified
Needed(key, timestamp) == IF timestamp # NoTimestamp THEN timestamp ELSE remote[key][1]

\* the cache holds an entry for key that is fresh enough for timestamp
Fresh(key, timestamp) == key \in DOMAIN cache_data /\ cache_data[key][1] >= timestamp

\* C1 (freshness invariant): a read of p with an explicit timestamp t is served
\* from the cache (it returns what the entry's file holds, without a remote
\* get) if and only if the cache holds an entry for p with timestamp >= t;
\* otherwise exactly one remote get is made.
C1_Freshness ==
    [][(Called("get") /\ last'.ts # NoTimestamp)
        => IF Fresh(prefix \o last'.path, last'.ts)
           THEN /\ last'.fetches = 0
                /\ last'.err = "ok"
                /\ cache_data[prefix \o last'.path][2] \in DOMAIN disk_files
                /\ last'.ret = disk_files[cache_data[prefix \o last'.path][2]]
           ELSE last'.fetches = 1]_vars

\* the part of C1 that is about the remote gets alone
FreshnessDecidesFetch ==
    [][(Called("get") /\ last'.ts # NoTimestamp)
        => last'.fetches = (IF Fresh(prefix \o last'.path, last'.ts) THEN 0 ELSE 1)]_vars

\* C6 (write-then-read coherence): after put(p, new_bytes) has succeeded, a
\* following get(p) without a timestamp returns new_bytes.
C6_WriteThenRead ==
    [][(last.op = "put" /\ last.err = "ok" /\ Called("get")
            /\ last'.path = last.path /\ last'.ts = NoTimestamp)
        => (last'.err = "ok" /\ last'.ret = last.content)]_vars

\* C7 (whole-subtree round trip): after a copy_from of a directory that went
\* through the per-file reconciliation and registered the markers, a second
\* copy_from of the same directory, nothing else done in between, makes no
\* remote list or get call.
C7_SubtreeRoundTrip ==
    [][(last.op = "copy_from" /\ last.err = "ok" /\ last.lists = 1
            /\ Called("copy_from") /\ last'.path = last.path)
        => (last'.lists = 0 /\ last'.fetches = 0)]_vars

\* the same when the clock still reads the first call's start_timestamp
RoundTripWithinTheInstant ==
    [][(last.op = "copy_from" /\ last.err = "ok" /\ last.lists = 1
            /\ Called("copy_from") /\ last'.path = last.path
            /\ cache_data[prefix \o last.path][1] = now)
        => (last'.lists = 0 /\ last'.fetches = 0)]_vars

\* C8 (directory delete recursion): a delete of a directory that returns
\* leaves no object in the bucket under that prefix (files, subdirectory keys,
\* the directory key) and no cache entry for any of the keys that were there.
C8_DirectoryDelete ==
    [][(Called("delete") /\ endswith_slash(prefix \o last'.path) /\ last'.err = "ok")
        => /\ \A k \in DOMAIN remote' : ~startswith(k, prefix \o last'.path)
           /\ \A k \in DOMAIN remote :
                  startswith(k, prefix \o last'.path) => k \notin DOMAIN cache_data']_vars

\* C9 (NotFound is the only error): get, put, delete, move and copy_from either
\* return or raise NotFoundException, whatever the cache and the bucket hold.
C9_OnlyNotFound ==
    last.op \in {"get", "put", "delete", "move", "copy_from"}
        => last.err \in {"ok", "NotFoundException"}

\* C10 (read on a miss): a get of an object that is in the bucket and that
\* the cache cannot serve (no entry, or one older than the needed timestamp,
\* which is the object's last_modified or any explicit timestamp) makes one
\* remote get, stores the content with the object's last_modified and returns
\* it.
C10_ReadOnMiss ==
    [][(Called("get") /\ (prefix \o last'.path) \in DOMAIN remote
            /\ ~Fresh(prefix \o last'.path, Needed(prefix \o last'.path, last'.ts)))
        => /\ last'.err = "ok"
           /\ last'.fetches = 1
           /\ (prefix \o last'.path) \in DOMAIN cache_data'
           /\ cache_data'[prefix \o last'.path][1] = remote[prefix \o last'.path][1]
           /\ last'.ret = remote[prefix \o last'.path][2]]_vars

\* a directory marker's key: it ends with "/", or is "" (the scope root's)
is_marker(k) == endswith_slash(k) \/ k = EMPTY

\* C11 (markers are never evicted for space): the eviction an insertion makes
\* never takes a directory marker as its victim; a marker leaves the cache
\* only through invalidate (its cascade, or the parent cascade of a removed
\* child).
C11_MarkersNeverEvicted ==
    [][(Called("put_file") \/ Called("put_folder") \/ Called("cache_get"))
        => /\ \A k \in last'.victims : ~is_marker(k)
           /\ \A k \in DOMAIN cache_data : is_marker(k) => k \in DOMAIN cache_data']_vars

\* the file at disk path f is tracked: an entry of the cache has it as its
\* disk_path
Tracked(data, f) == \E k \in DOMAIN data : data[k][2] = f

\* C12 (no leaked files): after every put_file call has returned, normally or
\* with an exception (content larger than max_size included), every file
\* under cache_path is tracked by a cache entry, so that eviction or
\* invalidate can still remove it.
C12_NoLeakedFiles ==
    [][Called("put_file")
        => \A f \in DOMAIN disk_files' : Tracked(cache_data', f)]_vars

\* the file key k is cached: it has an entry, and the entry's file is on the disk
CachedIn(data, files, k) == k \in DOMAIN data /\ data[k][2] \in DOMAIN files

\* C13 (marker completeness): a copy_from that went through the listing and
\* registered the markers leaves every listed file in the cache (entry and
\* file on the disk), also when the subtree is larger than max_size; and
\* while a marker stays as registered, the cached files under it stay cached.
C13_MarkerCompleteness ==
    [][/\ (Called("copy_from") /\ last'.err = "ok" /\ last'.lists = 1)
            => \A k \in DOMAIN remote :
                   (startswith(k, prefix \o last'.path) /\ ~endswith_slash(k))
                       => CachedIn(cache_data', disk_files', k)
       /\ \A d \in DOMAIN cache_data \cap DOMAIN cache_data' :
              (is_marker(d) /\ cache_data'[d] = cache_data[d])
                  => \A k \in DOMAIN cache_data :
                         (startswith(k, d) /\ ~is_marker(k)
                              /\ CachedIn(cache_data, disk_files, k))
                             => CachedIn(cache_data', disk_files', k)]_vars

\* C14 (full ancestor cascade): invalidate(path) of a path that has an entry
\* leaves no directory marker above path in the cache, also when a directory
\* in between has no marker.
C14_FullAncestorCascade ==
    [][(Called("invalidate") /\ last'.path \in DOMAIN cache_data)
        => AncestorMarkers(last'.path) \cap DOMAIN cache_data' = {}]_vars

\* C15 (write and delete against the cache): put and delete do their remote
\* operation first and invalidate the cache afterwards: after a put or a
\* delete of p that returned, the cache holds no entry for p and no directory
\* marker above p (what it holds predates the call, neither of them storing
\* any); and a delete of an object that is in the bucket has removed it
\* whatever the invalidation then does.
C15_RemoteThenInvalidate ==
    [][/\ ((Called("put") \/ Called("delete")) /\ last'.err = "ok")
            => /\ (prefix \o last'.path) \notin DOMAIN cache_data'
               /\ AncestorMarkers(prefix \o last'.path) \cap DOMAIN cache_data' = {}
       /\ (Called("delete") /\ (prefix \o last'.path) \in DOMAIN remote)
            => (prefix \o last'.path) \notin DOMAIN remote']_vars

\* C16 (lookup racing eviction): with calls running concurrently on the
\* shared cache, a lookup of p made while an invalidate of p is under way
\* never returns a disk location whose file has already been deleted, and
\* the location a lookup returned can be opened: no eviction or removal of
\* the entry comes between the lookup and the open.
C16_LookupRacingEviction ==
    [][/\ (Called("lookup") /\ last'.ret # None /\ deleting = last'.path)
            => last'.ret \in DOMAIN disk_files'
       /\ Called("open") => last'.err = "ok"]_vars

\* C17 (entry implies backing file): once a put_file, put_folder, get or
\* invalidate call has returned, normally or with an exception, every file
\* entry of the cache has its file on the disk at the entry's disk_path.
C17_EntryImpliesFile ==
    \A k \in DOMAIN cache_data :
        ~is_marker(k) => CachedIn(cache_data, disk_files, k)

\* C18 (insertion always completes): in every state of the cache,
\* put_file(path, t, content) with content of at most max_size bytes returns
\* normally with the entry for path in the cache, whatever markers are there
\* and whatever failed before.
C18_InsertionCompletes ==
    [][(Called("put_file") /\ Len(last'.content) <= MaxSize)
        => (last'.err = "ok" /\ last'.path \in DOMAIN cache_data')]_vars

\* the depth of a path: the number of its names
Depth(p) == Cardinality({i \in 1..Len(p) : p[i] # "/" /\ (i = 1 \/ p[i - 1] = "/")})

\* C19 (the ancestor walks terminate): on every path, one that begins with
\* "/" included, the walk of __getitem__ / __setitem__ and the recursion of
\* invalidate make at most depth(path) steps.
C19_WalksTerminate == walk.steps <= Depth(walk.path)

\* the same for the paths that do not begin with "/"
RelativeWalksTerminate ==
    (walk.path # EMPTY /\ walk.path[1] # "/") => walk.steps <= Depth(walk.path)

\* C20 (the fast path never serves stale content): when copy_from of a
\* directory is answered from its cached marker (no remote list call), every
\* file it copies is in the bucket with these very bytes: nothing under the
\* directory was written or deleted after the listing behind the marker.
C20_FastPathNeverStale ==
    [][(Called("copy_from") /\ last'.err = "ok" /\ last'.lists = 0)
        => \A r \in DOMAIN last'.ret :
               /\ (prefix \o last'.path \o r) \in DOMAIN remote
               /\ last'.ret[r] = remote[prefix \o last'.path \o r][2]]_vars

====
